---------------------------- MODULE Spec2Model ----------------------------
(***************************************************************************)
(* liberror: include/liberror/exception.h                                  *)
(*                                                                         *)
(* Exception carries an error code, a context and a description, and       *)
(* renders its message lazily in what(), keeping it in the mutable member  *)
(* message_.  The object model below is the POSIX build configuration      *)
(* (error_code_type = int, 4 bytes, signed); the Windows description       *)
(* lookup (GetWin32ErrorDescription and its LocalFreeGuard) is modelled    *)
(* on its own further down.                                                *)
(*                                                                         *)
(* A std::string is a string; a char array is a sequence of one-character *)
(* strings in which NUL terminates the C string it holds.                  *)
(***************************************************************************)
EXTENDS Integers, Sequences, FiniteSets, TLC

VARIABLES
    objs,     \* object slot -> the Exception object living there
    given,    \* object slot -> the code, context, description last given to it
    origin,   \* object slot -> how the object came to be, and from which slot
    last,     \* the last member call: what it was, on which object, its result,
              \* and whether it repeats a what() that had just succeeded
    tpc,      \* thread -> where the thread stands in its what() call, if in one
    tcap,     \* capacity of message_ during the what() call in progress
    tret,     \* thread -> the call the thread completed last, and its result
    facility, \* what FormatMessageA produces for the looked-up code
    lpc,      \* position inside SystemException's constructor (Windows)
    buffer,   \* the characters of the facility-allocated buffer
    length,   \* the local variable length of GetWin32ErrorDescription
    heap,     \* state of the facility-allocated buffer: none, held, freed
    guard,    \* whether a LocalFreeGuard is in scope
    frees,    \* number of LocalFree calls made on an allocated buffer
    nullFrees,\* number of LocalFree calls made with no buffer obtained
    result,   \* the std::string GetWin32ErrorDescription returns
    copiedWhile, \* state of the buffer at the moment std::string(buffer) read it
    stored    \* the description_ the constructed SystemException holds

vars == <<objs, given, origin, last, tpc, tcap, tret,
          facility, lpc, buffer, length, heap, guard, frees, nullFrees, result,
          copiedWhile, stored>>

objVars == <<objs, given, origin, last>>
shVars == <<tpc, tcap, tret>>
lookVars == <<facility, lpc, buffer, length, heap, guard, frees, nullFrees, result,
              copiedWhile, stored>>

-----------------------------------------------------------------------------
(* Bounds of the model *)

\* longest context and description a constructor is given
MaxStrLen == 1

\* number of threads sharing one object
NumThreads == 2

\* longest text the platform facility returns
MaxTextLen == 3

-----------------------------------------------------------------------------
(* Program constants *)

\* sizeof(error_code_) for error_code_type = int
SizeofCode == 4

\* the slack what() adds to the reserve request
ReserveSlack == 100

HEX_MAP == <<"0", "1", "2", "3", "4", "5", "6", "7",
             "8", "9", "A", "B", "C", "D", "E", "F">>

\* the terminator of a C string, as an element of a char array
NUL == "NUL"

-----------------------------------------------------------------------------
(* Text helpers *)

\* n copies of the character ch
RECURSIVE Rep(_, _)
Rep(ch, n) ==
    IF n = 0 THEN ""
    ELSE LET half == Rep(ch, n \div 2)
         IN half \o half \o (IF n % 2 = 1 THEN ch ELSE "")

\* all texts over alphabet A of length at most n
RECURSIVE TextsUpTo(_, _)
TextsUpTo(A, n) ==
    IF n = 0 THEN {""}
    ELSE LET shorter == TextsUpTo(A, n - 1)
         IN shorter \cup {t \o c : t \in {u \in shorter : Len(u) = n - 1}, c \in A}

\* all char arrays over alphabet A of length at most n
RECURSIVE ArraysUpTo(_, _)
ArraysUpTo(A, n) ==
    IF n = 0 THEN {<<>>}
    ELSE LET shorter == ArraysUpTo(A, n - 1)
         IN shorter \cup {Append(t, c) : t \in {u \in shorter : Len(u) = n - 1}, c \in A}

\* the characters of a char array, joined into a string
RECURSIVE Join(_)
Join(a) == IF a = <<>> THEN "" ELSE Head(a) \o Join(Tail(a))

\* std::string(const char*): the characters before the first NUL
CStr(a) ==
    LET nuls == {i \in 1..Len(a) : a[i] = NUL}
    IN IF nuls = {} THEN Join(a)
       ELSE Join(SubSeq(a, 1, (CHOOSE i \in nuls : \A j \in nuls : i <= j) - 1))

\* message_.c_str() as the caller reads it: message_ is assembled from C
\* strings and HEX_MAP digits, so it holds no NUL and reads back whole
c_str(s) == s

-----------------------------------------------------------------------------
(* Inputs *)

Objects == {"e1", "e2"}

\* category() of SystemException in the POSIX build
POSIX == "POSIX"

\* category() of user-defined subtypes of Exception: a short name, and two
\* long ones for which the assembled message outgrows the reserve request
ShortCategory == "APP"

LongCategories == {Rep("C", 88), Rep("K", 95)}

\* int error codes: zero, small, all bits set, distinct nibbles, INT_MAX, INT_MIN
Codes == {0, 2, -1, 439041101, 2147483647, -2147483647 - 1}

Contexts == TextsUpTo({"f"}, MaxStrLen)

Descriptions == TextsUpTo({"d"}, MaxStrLen)

\* the inputs of the object lifecycle
SomeCategories == {Rep("K", 95)}

SomeCodes == {2, -1}

SomeContexts == {"", "open config"}

SomeDescriptions == {"", "No such file or directory"}

\* ErrorInfo constants a program declares with DECLARE_ERROR_INFO
ErrorInfos ==
    {[error_code |-> c, description |-> d] : c \in SomeCodes, d \in SomeDescriptions}

-----------------------------------------------------------------------------
(* Exception::what *)

\* error_code_ >> bits on a signed int: an arithmetic shift (a build that
\* shifts logically leaves the same low byte for every shift the loop makes)
ShiftRight(v, bits) == v \div (2 ^ bits)

\* static_cast<uint8_t>(v)
U8(v) == v % 256

\* the loop body with the two nibbles pushed in the wrong order
HexOfByteLowFirst(code, k) ==
    LET ch == U8(ShiftRight(code, k * 8))
    IN <<HEX_MAP[(ch % 16) + 1], HEX_MAP[(ch \div 16) + 1]>>

\* the body of the while loop: the two digits of byte number k (0 = least significant)
HexOfByte(code, k) ==
    LET ch == U8(ShiftRight(code, k * 8))
    IN <<HEX_MAP[(ch \div 16) + 1], HEX_MAP[(ch % 16) + 1]>>

\* the arguments of the push_back calls of the while loop, in order:
\* error_code_size counts down from sizeof(error_code_) - 1 to 0
RECURSIVE HexLoop(_, _)
HexLoop(code, error_code_size) ==
    IF error_code_size = 0 THEN <<>>
    ELSE HexOfByte(code, error_code_size - 1) \o HexLoop(code, error_code_size - 1)

\* the arguments of the append and push_back calls what() makes, in order
Pieces(e) ==
    <<e.cat, "[0x">>
    \o HexLoop(e.code, SizeofCode)
    \o <<"]">>
    \o (IF e.ctx # "" THEN <<e.ctx>> ELSE <<>>)
    \o (IF e.desc # "" THEN <<" ", e.desc>> ELSE <<>>)

\* capacity a std::string takes when it must grow to hold need characters
\* (libstdc++: twice the old capacity, or the need if that is larger)
Grow(cap, need) == IF 2 * cap > need THEN 2 * cap ELSE need

\* one append or push_back of piece p onto message_ with capacity cap: a call
\* that fits changes only the text; a call that must reallocate either throws
\* std::bad_alloc and changes nothing, or grows the buffer
AppendStep(msg, cap, p, allocFails) ==
    IF Len(msg) + Len(p) <= cap
    THEN [msg |-> msg \o p, cap |-> cap, threw |-> FALSE]
    ELSE IF allocFails
         THEN [msg |-> msg, cap |-> cap, threw |-> TRUE]
         ELSE [msg |-> msg \o p, cap |-> Grow(cap, Len(msg) + Len(p)), threw |-> FALSE]

\* the appends of the try block from piece k on
RECURSIVE Assemble(_, _, _, _, _)
Assemble(msg, cap, pieces, k, allocFails) ==
    IF k > Len(pieces) THEN [msg |-> msg, threw |-> FALSE]
    ELSE LET s == AppendStep(msg, cap, pieces[k], allocFails)
         IN IF s.threw THEN [msg |-> s.msg, threw |-> TRUE]
            ELSE Assemble(s.msg, s.cap, pieces, k + 1, allocFails)

\* what the catch clause returns: std::bad_alloc::what(), a string literal of
\* the library, so the text outlives the exception object.  std::bad_alloc is
\* the one exception reserve, append and push_back throw at these sizes.
BadAllocWhat == "std::bad_alloc"

\* where an allocation fails during a what() call
FailChoices == {"none", "reserve", "realloc"}

\* the request of message_.reserve, which is the capacity message_ has after
\* it (libstdc++ allocates what is asked once that is twice the old capacity)
ReserveRequest(e) == Len(e.desc) + Len(e.ctx) + ReserveSlack

\* what() without the message_.empty() test: assembles on every call
WhatOutcomeNoMemo(e, fail) ==
    IF fail = "reserve"
    THEN [obj |-> e, ret |-> BadAllocWhat, failed |-> TRUE, assembled |-> TRUE]
    ELSE LET a == Assemble(e.msg, ReserveRequest(e) + Len(e.msg), Pieces(e), 1, fail = "realloc")
         IN [obj |-> [e EXCEPT !.msg = a.msg],
             ret |-> IF a.threw THEN BadAllocWhat ELSE c_str(a.msg),
             failed |-> a.threw, assembled |-> TRUE]

\* what() that moves description_ into the message instead of copying it
WhatOutcomeMovesDescription(e, fail) ==
    IF e.msg # ""
    THEN [obj |-> e, ret |-> c_str(e.msg), failed |-> FALSE, assembled |-> FALSE]
    ELSE IF fail = "reserve"
    THEN [obj |-> e, ret |-> BadAllocWhat, failed |-> TRUE, assembled |-> TRUE]
    ELSE LET a == Assemble("", ReserveRequest(e), Pieces(e), 1, fail = "realloc")
         IN [obj |-> [e EXCEPT !.msg = a.msg,
                               !.desc = IF a.threw THEN e.desc ELSE ""],
             ret |-> IF a.threw THEN BadAllocWhat ELSE c_str(a.msg),
             failed |-> a.threw, assembled |-> TRUE]

\* one what() call on object e in which allocation fails as `fail` says:
\* the object afterwards, the text returned, whether the try block threw,
\* and whether the try block was entered
WhatOutcome(e, fail) ==
    IF e.msg # ""
    THEN [obj |-> e, ret |-> c_str(e.msg), failed |-> FALSE, assembled |-> FALSE]
    ELSE IF fail = "reserve"
    THEN [obj |-> e, ret |-> BadAllocWhat, failed |-> TRUE, assembled |-> TRUE]
    ELSE LET a == Assemble("", ReserveRequest(e), Pieces(e), 1, fail = "realloc")
         IN [obj |-> [e EXCEPT !.msg = a.msg],
             ret |-> IF a.threw THEN BadAllocWhat ELSE c_str(a.msg),
             failed |-> a.threw, assembled |-> TRUE]

\* whether allocation can fail as `fail` says in a what() call on e
CanFail(e, fail) ==
    \/ fail = "none"
    \/ fail = "reserve" /\ e.msg = ""
    \/ fail = "realloc" /\ e.msg = ""
         /\ Assemble("", ReserveRequest(e), Pieces(e), 1, TRUE).threw

-----------------------------------------------------------------------------
(* Object lifecycle: constructors, copies, accessors *)

NoObject == [alive |-> FALSE, cat |-> "", code |-> 0, ctx |-> "",
             desc |-> "", msg |-> ""]

NoCall == [op |-> "none", obj |-> "none", failed |-> FALSE, assembled |-> FALSE,
           again |-> FALSE, ret |-> "", num |-> 0]

\* what an object carries: its type's category and the three data members
Fields(e) == [cat |-> e.cat, code |-> e.code, ctx |-> e.ctx, desc |-> e.desc]

\* the member initialisers of the three-argument constructor; the other
\* constructors leave the strings they do not name empty
NewException(cat, error_code, context, description) ==
    [alive |-> TRUE, cat |-> cat, code |-> error_code, ctx |-> context,
     desc |-> description, msg |-> ""]

Constructed(o, e) ==
    /\ ~objs[o].alive
    /\ objs' = [objs EXCEPT ![o] = e]
    /\ given' = [given EXCEPT ![o] = Fields(e)]
    /\ origin' = [origin EXCEPT ![o] = [how |-> "ctor", from |-> o]]
    /\ last' = [NoCall EXCEPT !.op = "construct", !.obj = o]
    /\ UNCHANGED <<shVars, lookVars>>

\* explicit Exception(error_code_type error_code)
ConstructCode(o) ==
    \E cat \in SomeCategories, c \in SomeCodes :
        Constructed(o, NewException(cat, c, "", ""))

\* Exception(error_code_type error_code, const char* context)
ConstructContext(o) ==
    \E cat \in SomeCategories, c \in SomeCodes, x \in SomeContexts :
        Constructed(o, NewException(cat, c, x, ""))

\* Exception(error_code_type error_code, const char* context, const char* description)
ConstructFull(o) ==
    \E cat \in SomeCategories, c \in SomeCodes, x \in SomeContexts, d \in SomeDescriptions :
        Constructed(o, NewException(cat, c, x, d))

\* Exception(const ErrorInfo& error_info)
ConstructInfo(o) ==
    \E cat \in SomeCategories, i \in ErrorInfos :
        Constructed(o, NewException(cat, i.error_code, "", i.description))

\* Exception(const ErrorInfo& error_info, const char* context)
ConstructInfoContext(o) ==
    \E cat \in SomeCategories, i \in ErrorInfos, x \in SomeContexts :
        Constructed(o, NewException(cat, i.error_code, x, i.description))

\* POSIX SystemException(ec, cnt): the description is strerror(ec), never empty
ConstructSystem(o) ==
    \E ec \in SomeCodes, cnt \in SomeContexts, d \in SomeDescriptions \ {""} :
        Constructed(o, NewException(POSIX, ec, cnt, d))

\* a what() that assembles into a buffer every object shares
WhatStoreShared(o, e) == [p \in Objects |->
    IF p = o THEN e
    ELSE IF objs[p].alive THEN [objs[p] EXCEPT !.msg = e.msg] ELSE objs[p]]

\* objs after what() on o left the object as e: message_ is a member
WhatStore(o, e) == [objs EXCEPT ![o] = e]

\* const char* what() const noexcept
What(o) ==
    \E fail \in FailChoices :
        /\ objs[o].alive
        /\ CanFail(objs[o], fail)
        /\ LET w == WhatOutcome(objs[o], fail)
           IN /\ objs' = WhatStore(o, w.obj)
              /\ last' = [op |-> "what", obj |-> o, failed |-> w.failed,
                          assembled |-> w.assembled,
                          again |-> (last.op = "what" /\ last.obj = o /\ ~last.failed),
                          ret |-> w.ret, num |-> 0]
        /\ UNCHANGED <<given, origin, shVars, lookVars>>

\* error_code_type error_code() const
error_code(e) == e.code

\* const std::string& context() const
context(e) == e.ctx

\* const std::string& description() const
description(e) == e.desc

\* virtual const char* category() const
category(e) == e.cat

ErrorCode(o) ==
    /\ objs[o].alive
    /\ last' = [NoCall EXCEPT !.op = "error_code", !.obj = o, !.num = error_code(objs[o])]
    /\ UNCHANGED <<objs, given, origin, shVars, lookVars>>

Context(o) ==
    /\ objs[o].alive
    /\ last' = [NoCall EXCEPT !.op = "context", !.obj = o, !.ret = context(objs[o])]
    /\ UNCHANGED <<objs, given, origin, shVars, lookVars>>

Description(o) ==
    /\ objs[o].alive
    /\ last' = [NoCall EXCEPT !.op = "description", !.obj = o, !.ret = description(objs[o])]
    /\ UNCHANGED <<objs, given, origin, shVars, lookVars>>

Category(o) ==
    /\ objs[o].alive
    /\ last' = [NoCall EXCEPT !.op = "category", !.obj = o, !.ret = category(objs[o])]
    /\ UNCHANGED <<objs, given, origin, shVars, lookVars>>

\* Exception(const Exception&) = default, run by the copy constructor of the
\* source's own type: every member is copied, the category is the same
CopyOf(e) == e

CopyConstruct(src, dst) ==
    /\ objs[src].alive
    /\ ~objs[dst].alive
    /\ objs' = [objs EXCEPT ![dst] = CopyOf(objs[src])]
    /\ given' = [given EXCEPT ![dst] = Fields(objs'[dst])]
    /\ origin' = [origin EXCEPT ![dst] = [how |-> "copy", from |-> src]]
    /\ last' = [NoCall EXCEPT !.op = "copy", !.obj = dst]
    /\ UNCHANGED <<shVars, lookVars>>

\* Exception& operator=(const Exception&) = default: the four members are
\* assigned; the target keeps its own type, and so its own category()
Assigned(target, source) ==
    [target EXCEPT !.code = source.code, !.desc = source.desc,
                   !.ctx = source.ctx, !.msg = source.msg]

CopyAssign(dst, src) ==
    /\ objs[src].alive
    /\ objs[dst].alive
    /\ objs' = [objs EXCEPT ![dst] = Assigned(objs[dst], objs[src])]
    /\ given' = [given EXCEPT ![dst] = Fields(objs'[dst])]
    /\ origin' = [origin EXCEPT ![dst] = [how |-> "assigned", from |-> src]]
    /\ last' = [NoCall EXCEPT !.op = "assign", !.obj = dst]
    /\ UNCHANGED <<shVars, lookVars>>

-----------------------------------------------------------------------------
(* Idle values of the variables a specification does not use *)

ObjIdle ==
    /\ objs = [o \in Objects |-> NoObject]
    /\ given = [o \in Objects |-> Fields(NoObject)]
    /\ origin = [o \in Objects |-> [how |-> "none", from |-> o]]
    /\ last = NoCall

Threads == 1..NumThreads

NotInWhat == [at |-> "idle", k |-> 0]

ShIdle ==
    /\ tpc = [t \in Threads |-> NotInWhat]
    /\ tcap = 0
    /\ tret = [t \in Threads |-> NoCall]

NoText == [found |-> FALSE, text |-> <<>>]

LookIdle ==
    /\ facility = NoText
    /\ lpc = "idle"
    /\ buffer = <<>>
    /\ length = 0
    /\ heap = "none"
    /\ guard = FALSE
    /\ frees = 0
    /\ nullFrees = 0
    /\ result = ""
    /\ copiedWhile = "none"
    /\ stored = ""

-----------------------------------------------------------------------------
(* Specification of the object lifecycle *)

Init == ObjIdle /\ ShIdle /\ LookIdle

Next ==
    \/ \E o \in Objects : ConstructCode(o)
    \/ \E o \in Objects : ConstructContext(o)
    \/ \E o \in Objects : ConstructFull(o)
    \/ \E o \in Objects : ConstructInfo(o)
    \/ \E o \in Objects : ConstructInfoContext(o)
    \/ \E o \in Objects : ConstructSystem(o)
    \/ \E o \in Objects : What(o)
    \/ \E o \in Objects : ErrorCode(o)
    \/ \E o \in Objects : Context(o)
    \/ \E o \in Objects : Description(o)
    \/ \E o \in Objects : Category(o)
    \/ \E s \in Objects, d \in Objects : CopyConstruct(s, d)
    \/ \E d \in Objects, s \in Objects : CopyAssign(d, s)

Spec == Init /\ [][Next]_vars

-----------------------------------------------------------------------------
(* Specification of rendering: one freshly constructed object, any inputs *)

RenderCategories == {POSIX, ShortCategory, ""} \cup LongCategories

InitRender ==
    /\ \E cat \in RenderCategories, c \in Codes, x \in Contexts, d \in Descriptions :
          /\ objs = [o \in Objects |->
                        IF o = "e1" THEN NewException(cat, c, x, d) ELSE NoObject]
          /\ given = [o \in Objects |-> Fields(objs[o])]
    /\ origin = [o \in Objects |->
                    [how |-> IF o = "e1" THEN "ctor" ELSE "none", from |-> o]]
    /\ last = [NoCall EXCEPT !.op = "construct", !.obj = "e1"]
    /\ ShIdle
    /\ LookIdle

NextRender == What("e1")

SpecRender == InitRender /\ [][NextRender]_vars

-----------------------------------------------------------------------------
(* Specification of one object shared by threads.  The object lives in slot *)
(* e1; every thread holds a reference to it.  The callers serialize what(): *)
(* a thread enters it only while no other thread is inside.  Each step of   *)
(* what() is one access to message_; each accessor is one read of a member. *)

SharedObject == "e1"

InWhat(t) == tpc[t].at # "idle"

\* a caller enters what() under the callers' own serialization
ShWhatEnter(t) ==
    /\ \A u \in Threads : ~InWhat(u)
    /\ tpc' = [tpc EXCEPT ![t] = [at |-> "test", k |-> 0]]
    /\ UNCHANGED <<objVars, tcap, tret, lookVars>>

\* if (message_.empty())
ShWhatTest(t) ==
    /\ tpc[t].at = "test"
    /\ tpc' = [tpc EXCEPT ![t] =
                  IF objs[SharedObject].msg = "" THEN [at |-> "reserve", k |-> 0]
                  ELSE [at |-> "return", k |-> 0]]
    /\ UNCHANGED <<objVars, tcap, tret, lookVars>>

\* message_.reserve(description_.size() + context_.size() + 100)
ShWhatReserve(t) ==
    /\ tpc[t].at = "reserve"
    /\ \E allocFails \in BOOLEAN :
          IF allocFails
          THEN /\ tpc' = [tpc EXCEPT ![t] = [at |-> "catch", k |-> 0]]
               /\ UNCHANGED tcap
          ELSE /\ tpc' = [tpc EXCEPT ![t] = [at |-> "append", k |-> 1]]
               /\ tcap' = ReserveRequest(objs[SharedObject])
    /\ UNCHANGED <<objVars, tret, lookVars>>

\* the k-th append or push_back of the try block
ShWhatAppend(t) ==
    /\ tpc[t].at = "append"
    /\ LET e == objs[SharedObject]
           pieces == Pieces(e)
           k == tpc[t].k
       IN \E allocFails \in BOOLEAN :
             LET s == AppendStep(e.msg, tcap, pieces[k], allocFails)
             IN /\ allocFails => s.threw
                /\ objs' = [objs EXCEPT ![SharedObject].msg = s.msg]
                /\ tcap' = s.cap
                /\ tpc' = [tpc EXCEPT ![t] =
                              IF s.threw THEN [at |-> "catch", k |-> 0]
                              ELSE IF k = Len(pieces) THEN [at |-> "return", k |-> 0]
                              ELSE [at |-> "append", k |-> k + 1]]
    /\ UNCHANGED <<given, origin, last, tret, lookVars>>

\* catch(std::exception& ex) { return ex.what(); }
ShWhatCatch(t) ==
    /\ tpc[t].at = "catch"
    /\ tpc' = [tpc EXCEPT ![t] = NotInWhat]
    /\ tret' = [tret EXCEPT ![t] =
                   [NoCall EXCEPT !.op = "what", !.obj = SharedObject,
                                  !.failed = TRUE, !.ret = BadAllocWhat]]
    /\ UNCHANGED <<objVars, tcap, lookVars>>

\* return message_.c_str();
ShWhatReturn(t) ==
    /\ tpc[t].at = "return"
    /\ tpc' = [tpc EXCEPT ![t] = NotInWhat]
    /\ tret' = [tret EXCEPT ![t] =
                   [NoCall EXCEPT !.op = "what", !.obj = SharedObject,
                                  !.ret = c_str(objs[SharedObject].msg)]]
    /\ UNCHANGED <<objVars, tcap, lookVars>>

ShErrorCode(t) ==
    /\ ~InWhat(t)
    /\ tret' = [tret EXCEPT ![t] =
                   [NoCall EXCEPT !.op = "error_code", !.obj = SharedObject,
                                  !.num = error_code(objs[SharedObject])]]
    /\ UNCHANGED <<objVars, tpc, tcap, lookVars>>

ShContext(t) ==
    /\ ~InWhat(t)
    /\ tret' = [tret EXCEPT ![t] =
                   [NoCall EXCEPT !.op = "context", !.obj = SharedObject,
                                  !.ret = context(objs[SharedObject])]]
    /\ UNCHANGED <<objVars, tpc, tcap, lookVars>>

ShDescription(t) ==
    /\ ~InWhat(t)
    /\ tret' = [tret EXCEPT ![t] =
                   [NoCall EXCEPT !.op = "description", !.obj = SharedObject,
                                  !.ret = description(objs[SharedObject])]]
    /\ UNCHANGED <<objVars, tpc, tcap, lookVars>>

ShCategory(t) ==
    /\ ~InWhat(t)
    /\ tret' = [tret EXCEPT ![t] =
                   [NoCall EXCEPT !.op = "category", !.obj = SharedObject,
                                  !.ret = category(objs[SharedObject])]]
    /\ UNCHANGED <<objVars, tpc, tcap, lookVars>>

SharedCategories == {POSIX} \cup SomeCategories

InitShared ==
    /\ \E cat \in SharedCategories, c \in SomeCodes, x \in SomeContexts,
          d \in SomeDescriptions :
          /\ objs = [o \in Objects |->
                        IF o = SharedObject THEN NewException(cat, c, x, d) ELSE NoObject]
          /\ given = [o \in Objects |-> Fields(objs[o])]
    /\ origin = [o \in Objects |->
                    [how |-> IF o = SharedObject THEN "ctor" ELSE "none", from |-> o]]
    /\ last = [NoCall EXCEPT !.op = "construct", !.obj = SharedObject]
    /\ ShIdle
    /\ LookIdle

NextShared ==
    \/ \E t \in Threads : ShWhatEnter(t)
    \/ \E t \in Threads : ShWhatTest(t)
    \/ \E t \in Threads : ShWhatReserve(t)
    \/ \E t \in Threads : ShWhatAppend(t)
    \/ \E t \in Threads : ShWhatCatch(t)
    \/ \E t \in Threads : ShWhatReturn(t)
    \/ \E t \in Threads : ShErrorCode(t)
    \/ \E t \in Threads : ShContext(t)
    \/ \E t \in Threads : ShDescription(t)
    \/ \E t \in Threads : ShCategory(t)

SpecShared == InitShared /\ [][NextShared]_vars

-----------------------------------------------------------------------------
(* Specification of the Windows SystemException constructor:                *)
(* Exception(error_code, context, GetWin32ErrorDescription(error_code).c_str()) *)

CR == "\r"

LF == "\n"

\* a message long enough that a std::string holding it allocates
LongBody == [i \in 1..16 |-> "m"]

\* what FormatMessageA finds for a code: no text, or a text that may end in
\* line endings
FacilityTexts ==
    {body \o tail : body \in {<<>>, LongBody},
                    tail \in ArraysUpTo({"a", CR, LF}, MaxTextLen)} \ {<<>>}

FacilityResults ==
    {NoText} \cup {[found |-> TRUE, text |-> t] : t \in FacilityTexts}

\* a std::string of this many characters lives in the object itself and is
\* constructed without an allocation
FitsInPlace(str) == Len(str) <= 15

\* if (length > 0 && buffer[length - 1] == ch) buffer[--length] = '\0';
StripTrailing(buf, len, ch) ==
    IF len > 0 /\ buf[len] = ch
    THEN [buffer |-> [buf EXCEPT ![len] = NUL], length |-> len - 1]
    ELSE [buffer |-> buf, length |-> len]

\* a loop in place of the if: every trailing line feed is cut
RECURSIVE StripLineFeedAll(_, _)
StripLineFeedAll(buf, len) ==
    IF len > 0 /\ buf[len] = LF
    THEN StripLineFeedAll([buf EXCEPT ![len] = NUL], len - 1)
    ELSE [buffer |-> buf, length |-> len]

\* the first test: buffer[length - 1] == '\n'
StripLineFeed(buf, len) == StripTrailing(buf, len, LF)

\* the second test: buffer[length - 1] == '\r'
StripCarriageReturn(buf, len) == StripTrailing(buf, len, CR)

\* a lookup that frees by hand after the copy: nothing frees when the copy throws
AfterCopyNoGuard(threw) == IF threw THEN "thrown" ELSE "leave"

\* where control goes after std::string(buffer): the guard is a local, so
\* its destructor runs on the return and on the unwinding alike
AfterCopy(threw) == IF threw THEN "unwind" ELSE "leave"

\* ::LocalFree(pointer)
LocalFree ==
    /\ heap' = IF heap = "none" THEN "none" ELSE "freed"
    /\ frees' = IF heap = "none" THEN frees ELSE frees + 1
    /\ nullFrees' = IF heap = "none" THEN nullFrees + 1 ELSE nullFrees

\* ::FormatMessageA(FORMAT_MESSAGE_FROM_SYSTEM | FORMAT_MESSAGE_ALLOCATE_BUFFER, ...)
LookFormatMessage ==
    /\ lpc = "call"
    /\ IF facility.found
       THEN /\ buffer' = facility.text \o <<NUL>>
            /\ length' = Len(facility.text)
            /\ heap' = "held"
       ELSE /\ buffer' = <<>>
            /\ length' = 0
            /\ heap' = "none"
    /\ lpc' = "test"
    /\ UNCHANGED <<objVars, shVars, facility, guard, frees, nullFrees, result,
                   copiedWhile, stored>>

\* if (length == 0) return std::string();
LookNoText ==
    /\ lpc = "test"
    /\ length = 0
    /\ result' = ""
    /\ lpc' = "construct"
    /\ UNCHANGED <<objVars, shVars, facility, buffer, length, heap, guard, frees,
                   nullFrees, copiedWhile, stored>>

\* LocalFreeGuard _(buffer);
LookGuard ==
    /\ lpc = "test"
    /\ length # 0
    /\ guard' = TRUE
    /\ lpc' = "lf"
    /\ UNCHANGED <<objVars, shVars, facility, buffer, length, heap, frees,
                   nullFrees, result, copiedWhile, stored>>

LookStripLineFeed ==
    /\ lpc = "lf"
    /\ LET s == StripLineFeed(buffer, length)
       IN buffer' = s.buffer /\ length' = s.length
    /\ lpc' = "cr"
    /\ UNCHANGED <<objVars, shVars, facility, heap, guard, frees, nullFrees,
                   result, copiedWhile, stored>>

LookStripCarriageReturn ==
    /\ lpc = "cr"
    /\ LET s == StripCarriageReturn(buffer, length)
       IN buffer' = s.buffer /\ length' = s.length
    /\ lpc' = "copy"
    /\ UNCHANGED <<objVars, shVars, facility, heap, guard, frees, nullFrees,
                   result, copiedWhile, stored>>

\* return std::string(buffer);
LookCopy ==
    /\ lpc = "copy"
    /\ \E allocFails \in BOOLEAN :
          /\ allocFails => ~FitsInPlace(CStr(buffer))
          /\ result' = IF allocFails THEN result ELSE CStr(buffer)
          /\ lpc' = AfterCopy(allocFails)
    /\ copiedWhile' = heap
    /\ UNCHANGED <<objVars, shVars, facility, buffer, length, heap, guard, frees,
                   nullFrees, stored>>

\* ~LocalFreeGuard() as the function returns or unwinds
LookGuardDestroyed ==
    /\ lpc \in {"leave", "unwind"}
    /\ guard
    /\ LocalFree
    /\ guard' = FALSE
    /\ lpc' = IF lpc = "leave" THEN "construct" ELSE "thrown"
    /\ UNCHANGED <<objVars, shVars, facility, buffer, length, result,
                   copiedWhile, stored>>

\* the base constructor copies the description; the temporary is destroyed
LookConstruct ==
    /\ lpc = "construct"
    /\ \E allocFails \in BOOLEAN :
          /\ allocFails => ~FitsInPlace(result)
          /\ stored' = IF allocFails THEN stored ELSE result
          /\ lpc' = IF allocFails THEN "thrown" ELSE "done"
    /\ UNCHANGED <<objVars, shVars, facility, buffer, length, heap, guard, frees,
                   nullFrees, result, copiedWhile>>

InitLookup ==
    /\ ObjIdle
    /\ ShIdle
    /\ facility \in FacilityResults
    /\ lpc = "call"
    /\ buffer = <<>>
    /\ length = 0
    /\ heap = "none"
    /\ guard = FALSE
    /\ frees = 0
    /\ nullFrees = 0
    /\ result = ""
    /\ copiedWhile = "none"
    /\ stored = ""

NextLookup ==
    \/ LookFormatMessage
    \/ LookNoText
    \/ LookGuard
    \/ LookStripLineFeed
    \/ LookStripCarriageReturn
    \/ LookCopy
    \/ LookGuardDestroyed
    \/ LookConstruct

SpecLookup == InitLookup /\ [][NextLookup]_vars

-----------------------------------------------------------------------------
(* The message as documented *)

HexDigit(n) == SubSeq("0123456789ABCDEF", n + 1, n + 1)

\* four digits of a 16-bit value, most significant first
Hex16(n) ==
    HexDigit(n \div 4096) \o HexDigit((n \div 256) % 16)
        \o HexDigit((n \div 16) % 16) \o HexDigit(n % 16)

\* the digits of the two's-complement bit pattern of a 32-bit int
TwosComplementHex(c) == Hex16((c \div 65536) % 65536) \o Hex16(c % 65536)

\* category() + "[0x" + hex(c) + "]" + x + (d empty ? "" : " " + d)
Rendering(e) ==
    e.cat \o "[0x" \o TwosComplementHex(e.code) \o "]" \o e.ctx
        \o (IF e.desc = "" THEN "" ELSE " " \o e.desc)

-----------------------------------------------------------------------------
(* Claims *)

\* C1: a what() call that assembles the message without failure returns
\* category() + "[0x" + hex(code) + "]" + context + (description empty ? "" :
\* " " + description), hex(code) being the 2*sizeof(code) uppercase digits of
\* the code's two's-complement bit pattern, most significant byte first.
C1_RenderedText ==
    (last.op = "what" /\ last.assembled /\ ~last.failed) =>
        /\ last.ret = Rendering(objs[last.obj])
        /\ Len(TwosComplementHex(objs[last.obj].code)) = 2 * SizeofCode
        /\ Len(last.ret) = Len(objs[last.obj].cat) + 4 + 2 * SizeofCode
                             + Len(objs[last.obj].ctx)
                             + (IF objs[last.obj].desc = "" THEN 0
                                ELSE 1 + Len(objs[last.obj].desc))

\* C1 witness: the first what() on a fresh object with a negative code, a
\* context and a description returned the full text.
C1_Witness ==
    /\ last.op = "what" /\ last.assembled /\ ~last.failed /\ ~last.again
    /\ objs["e1"].code = -1 /\ objs["e1"].ctx = "f" /\ objs["e1"].desc = "d"
    /\ last.ret = "POSIX[0xFFFFFFFF]f d"

\* C2 as claimed: the cached message of every object is empty or the full
\* rendering of that object's own category, code, context and description.
C2_CacheEmptyOrOwnRendering ==
    \A o \in Objects :
        objs[o].alive => objs[o].msg = "" \/ objs[o].msg = Rendering(objs[o])

\* C3 as claimed: a what() call in which assembly fails returns the failure's
\* own message and leaves the cache empty, and the next what() call in which
\* assembly does not fail returns the complete message.
C3_FailureLeavesCacheEmpty ==
    /\ [](last.op = "what" /\ last.failed =>
             last.ret = BadAllocWhat /\ objs[last.obj].msg = "")
    /\ [][(last.op = "what" /\ last.failed
             /\ last'.op = "what" /\ last'.obj = last.obj /\ ~last'.failed)
          => last'.ret = Rendering(objs'[last'.obj])]_vars

\* C4: a what() call that directly follows a successful what() call on the
\* same object returns the same text, does no assembly and changes no object.
C4_SecondCallSame ==
    [][(last.op = "what" /\ ~last.failed /\ last'.op = "what" /\ last'.obj = last.obj)
       => (last'.ret = last.ret /\ ~last'.assembled /\ objs' = objs)]_vars

\* C4 witness: a second what() in a row returned the full message.
C4_Witness ==
    /\ last.op = "what" /\ last.again /\ ~last.failed
    /\ last.ret = "POSIX[0x00000002]open config No such file or directory"

\* C5 as claimed: a non-empty cache keeps its text for the rest of the
\* object's life, and an empty cache becomes non-empty only in a what() call
\* on that object whose assembly succeeds.
C5_RenderedIsTerminal ==
    [][\A o \in Objects : objs[o].alive =>
          /\ objs[o].msg # "" => objs'[o].msg = objs[o].msg
          /\ (objs[o].msg = "" /\ objs'[o].msg # "") =>
                 (last'.op = "what" /\ last'.obj = o /\ ~last'.failed)]_vars

\* C6: every object carries the code, context and description it was given,
\* whatever what() and accessor calls and copies were made from it, and each
\* accessor returns the value given.
C6_CarriedUnchanged ==
    /\ \A o \in Objects : objs[o].alive => Fields(objs[o]) = given[o]
    /\ last.op = "error_code" => last.num = given[last.obj].code
    /\ last.op = "context" => last.ret = given[last.obj].ctx
    /\ last.op = "description" => last.ret = given[last.obj].desc
    /\ last.op = "category" => last.ret = given[last.obj].cat

\* C6 witness: description() on a rendered object, of which a copy was taken,
\* returned the description given at construction.
C6_Witness ==
    /\ last.op = "description" /\ last.obj = "e1"
    /\ last.ret = "No such file or directory"
    /\ origin["e1"].how = "ctor"
    /\ objs["e1"].msg # ""
    /\ origin["e2"] = [how |-> "copy", from |-> "e1"]

\* C7: a what() call on one object changes no other object; copy construction
\* leaves the source unchanged, and the copy of an object with an empty cache
\* has an empty cache and renders the text the source renders.
C7_CopyIndependent ==
    [][/\ \A o \in Objects : (last'.op = "what" /\ last'.obj = o) =>
              \A p \in Objects \ {o} : objs'[p] = objs[p]
       /\ \A d \in Objects : (last'.op = "copy" /\ last'.obj = d /\ ~objs[d].alive) =>
              LET s == origin'[d].from
              IN /\ objs'[s] = objs[s]
                 /\ Fields(objs'[d]) = Fields(objs[s])
                 /\ objs[s].msg = "" =>
                        /\ objs'[d].msg = ""
                        /\ WhatOutcome(objs'[d], "none").ret
                             = WhatOutcome(objs[s], "none").ret]_vars

\* C7 witness: the copy was rendered and its source still has an empty cache.
C7_Witness ==
    /\ origin["e2"] = [how |-> "copy", from |-> "e1"]
    /\ last.op = "what" /\ last.obj = "e2" /\ ~last.failed
    /\ objs["e2"].msg = Rendering(objs["e2"])
    /\ objs["e1"].msg = ""
    /\ objs["e1"].ctx # ""

\* C8 as claimed, for the calls that return message_.c_str(): with what()
\* serialized by the callers and accessors interleaving with it, every
\* accessor call returns the value given at construction and every what()
\* call returns the complete rendered message.
C8_SharedCallsComplete ==
    \A t \in Threads :
        /\ tret[t].op = "error_code" => tret[t].num = given[SharedObject].code
        /\ tret[t].op = "context" => tret[t].ret = given[SharedObject].ctx
        /\ tret[t].op = "description" => tret[t].ret = given[SharedObject].desc
        /\ tret[t].op = "category" => tret[t].ret = given[SharedObject].cat
        /\ (tret[t].op = "what" /\ ~tret[t].failed) =>
               tret[t].ret = Rendering(objs[SharedObject])

\* C8, the accessor half: every accessor call returns the value given at
\* construction, wherever another thread stands in what().
C8_AccessorsAsGiven ==
    \A t \in Threads :
        /\ tret[t].op = "error_code" => tret[t].num = given[SharedObject].code
        /\ tret[t].op = "context" => tret[t].ret = given[SharedObject].ctx
        /\ tret[t].op = "description" => tret[t].ret = given[SharedObject].desc
        /\ tret[t].op = "category" => tret[t].ret = given[SharedObject].cat

\* the text without its last character, if that is ch
WithoutLast(t, ch) ==
    IF Len(t) > 0 /\ t[Len(t)] = ch THEN SubSeq(t, 1, Len(t) - 1) ELSE t

\* at most one trailing line feed removed, then at most one trailing
\* carriage return
Normalized(t) == Join(WithoutLast(WithoutLast(t, LF), CR))

EndsWith(t, a, b) == Len(t) >= 2 /\ t[Len(t) - 1] = a /\ t[Len(t)] = b

\* C9: the description the constructed object stores is the facility's text
\* with at most one trailing line feed and then at most one trailing carriage
\* return removed; with no text it is empty and the constructor completes.
C9_DescriptionNormalized ==
    /\ lpc = "done" => stored = Normalized(facility.text)
    /\ lpc \in {"construct", "done", "thrown"} /\ result # "" =>
           result = Normalized(facility.text)
    /\ ~facility.found => lpc # "thrown" /\ stored = "" /\ result = ""
    /\ (lpc = "done" /\ EndsWith(facility.text, CR, LF)) =>
           Len(stored) = Len(facility.text) - 2
    /\ (lpc = "done" /\ (EndsWith(facility.text, LF, LF) \/ EndsWith(facility.text, LF, CR))) =>
           /\ Len(stored) = Len(facility.text) - 1
           /\ SubSeq(stored, Len(stored), Len(stored)) = LF

\* C9 witness: a text ending in line feed, carriage return lost only the
\* carriage return.
C9_Witness ==
    /\ lpc = "done"
    /\ facility.text = <<"a", LF, CR>>
    /\ stored = "a\n"

\* C10: the facility's buffer is freed at most once, it is held while the
\* description is copied out of it, LocalFree is never called without a
\* buffer, and once the lookup has returned or thrown a buffer that was
\* obtained has been freed exactly once.
C10_BufferReleasedOnce ==
    /\ frees <= 1
    /\ nullFrees = 0
    /\ copiedWhile \in {"none", "held"}
    /\ heap = "freed" => copiedWhile = "held"
    /\ lpc \in {"construct", "done", "thrown"} =>
           /\ heap # "held"
           /\ ~guard
           /\ frees = IF facility.found THEN 1 ELSE 0

\* C10 witness: the copy threw and the buffer was freed on the way out.
C10_Witness ==
    /\ lpc = "thrown"
    /\ result = ""
    /\ heap = "freed"
    /\ frees = 1

=============================================================================
